---- MODULE Spec2Model ----
(***************************************************************************)
(* Status propagation (technician task-status handler, task creation,      *)
(* report submission, project status endpoint) and the real-time socket    *)
(* server (handshake, presence map, notification dispatch) of the          *)
(* cosmicproject backend.                                                  *)
(***************************************************************************)
EXTENDS Integers, Sequences, FiniteSets, TLC

VARIABLES
  tasks,           \* Task collection: sequence of documents, the id is the index
  projects,        \* Project collection
  last,            \* the last HTTP request served and its response code
  users,           \* User collection
  sockets,         \* open authenticated sockets
  nextSocket,      \* next socket id
  connectedUsers,  \* SocketServer.connectedUsers: userId -> socket id
  notifications,   \* Notification collection: sequence of rows
  dispatches,      \* notification dispatches started so far
  emitted,         \* the events emitted by the last step
  requests,        \* technician status updates being served, step by step
  sessions,        \* LoginSession collection: the token of a session is its index
  process,         \* the node process: "running", "closing" or "exited"
  callers          \* per dispatch started by an HTTP handler: who waits for it

vars == <<tasks, projects, last,
          users, sockets, nextSocket, connectedUsers,
          notifications, dispatches, emitted, requests,
          sessions, process, callers>>


(***************************************************************************)
(* Bounds of the model.                                                    *)
(***************************************************************************)
MaxTasks == 2
MaxLog == 2
MaxSockets == 2
MaxDispatches == 1
MaxRequests == 3
MaxSessions == 3
MaxRows == 2

(***************************************************************************)
(* Identities.                                                             *)
(***************************************************************************)
ProjectIds == {"p1"}
Managers == {"m1"}
Technicians == {"t1"}

Absent == "undefined"

\* Project.status enum of the schema.
ProjectStatusEnum == {"Planning", "In Progress", "Completed", "Delayed", "On Hold"}

\* Status values a technician sends in the request body: the ones the
\* handler and the technician's stats endpoint tell apart.
StatusInputs == {"in_progress", "completed", "delayed"}

\* Delay reasons a technician sends: absent, empty, blank, or with text.
ReasonInputs == {Absent, <<>>, <<" ">>, <<" ", "r">>}

\* The handler reads delayReason only when the status is "delayed".
ReasonsFor(status) == IF status = "delayed" THEN ReasonInputs ELSE {Absent}

(***************************************************************************)
(* String.prototype.trim on a string given as a sequence of characters.    *)
(***************************************************************************)
RECURSIVE TrimLeft(_)
TrimLeft(s) ==
  IF s = <<>> THEN <<>>
  ELSE IF Head(s) = " " THEN TrimLeft(Tail(s)) ELSE s

RECURSIVE TrimRight(_)
TrimRight(s) ==
  IF s = <<>> THEN <<>>
  ELSE IF s[Len(s)] = " " THEN TrimRight(SubSeq(s, 1, Len(s) - 1)) ELSE s

Trim(s) == TrimRight(TrimLeft(s))

\* The check without the trim: !delayReason only.
DelayReasonMissingNoTrim(reason) == reason = Absent \/ reason = <<>>

\* !delayReason || delayReason.trim() === ""
DelayReasonMissing(reason) ==
  reason = Absent \/ reason = <<>> \/ Trim(reason) = <<>>

(***************************************************************************)
(* Task documents.                                                         *)
(***************************************************************************)
\* new Task({...}) with the schema defaults.
NewTask(p, tech, mgr) ==
  [project |-> p, assignedTo |-> tech, assignedBy |-> mgr,
   status |-> "assigned", progress |-> 0, delayReason |-> Absent,
   statusLog |-> <<>>]

\* The schema's own notion of a completed task (either spelling).
IsCompletedStatus(s) == s = "completed" \/ s = "Completed"

\* Task.find({ project: p }) as a set of task ids.
ProjectTasks(ts, p) == {i \in DOMAIN ts : ts[i].project = p}

\* allProjectTasks.filter(task => task.status === "completed")
HandlerCompleted(ts, p) == {i \in ProjectTasks(ts, p) : ts[i].status = "completed"}

\* Math.round((c / t) * 100) for t > 0: round half up.
RoundPct(c, t) == (200 * c + t) \div (2 * t)

(***************************************************************************)
(* The technician handler's update document applied by findByIdAndUpdate   *)
(* (no save hooks, no validators; undefined keys are dropped by mongoose 8; *)
(* the schema's trim setter is applied to delayReason).                     *)
(***************************************************************************)
ApplyStatusUpdate(task, u, status, reason) ==
  [task EXCEPT
     !.status = status,
     !.progress = IF status = "completed" THEN 100 ELSE @,
     !.delayReason = IF status = "delayed" THEN Trim(reason) ELSE @,
     !.statusLog = Append(@, [status |-> status, updatedBy |-> u])]

\* The status decision of the handler from its own counts.
\* The status rule without the way back to "Planning".
NewProjectStatusNoPlanning(c, t) ==
  IF c = t THEN "Completed" ELSE "In Progress"

NewProjectStatus(c, t) ==
  IF c = t THEN "Completed"
  ELSE IF c > 0 THEN "In Progress"
  ELSE "Planning"

\* "Ensure the task is present in the parent project's tasks array":
\* push + save(), whose pre-save hook resets tasksCount to tasks.length.
EnsureLinked(proj, t) ==
  IF t \in proj.tasks THEN proj
  ELSE [proj EXCEPT !.tasks = @ \cup {t},
                    !.tasksCount = Cardinality(proj.tasks \cup {t})]

\* The recompute of the technician handler on project p over task set ts.
Propagate(proj, ts, p) ==
  LET all == ProjectTasks(ts, p)
      c == Cardinality(HandlerCompleted(ts, p))
      t == Cardinality(all)
  IN IF t > 0
       THEN [proj EXCEPT !.completedTasks = c,
                         !.tasksCount = t,
                         !.completionPercentage = RoundPct(c, t),
                         !.status = NewProjectStatus(c, t)]
       ELSE proj

NewProject(mgr) ==
  [status |-> "Planning", tasks |-> {}, tasksCount |-> 0, completedTasks |-> 0,
   completionPercentage |-> 0, progress |-> 0, endDate |-> FALSE,
   assignedManager |-> mgr]

\* The last request served and its response code.
NoRequest ==
  [op |-> "none", code |-> 0, task |-> 0, project |-> Absent,
   status |-> Absent, reason |-> Absent]

Request(op, code, u, t, p, status, reason) ==
  [op |-> op, code |-> code, task |-> t, project |-> p,
   status |-> status, reason |-> reason]

\* Number of status-log entries written so far, over all tasks.
RECURSIVE LogTotal(_)
LogTotal(ts) ==
  IF ts = <<>> THEN 0
  ELSE Len(ts[Len(ts)].statusLog) + LogTotal(SubSeq(ts, 1, Len(ts) - 1))

(***************************************************************************)
(* config/socket.js: the module-level io is assigned by initializeSocket   *)
(* only, which the server never calls; getIO() throws while it is unset    *)
(* and the handlers catch that error around their emits.                   *)
(***************************************************************************)
IoInitialized == FALSE

LegacyEmit(evts, room, event, subject) ==
  IF IoInitialized
    THEN evts \cup {[via |-> "io", room |-> room, event |-> event, subject |-> subject]}
    ELSE evts

(***************************************************************************)
(* PUT /api/technician/tasks/:taskId/status                                *)
(***************************************************************************)
PutTaskStatus(u, t, status, reason) ==
  /\ t \in 1..MaxTasks
  /\ IF ~(t \in DOMAIN tasks /\ tasks[t].assignedTo = u)
       THEN /\ last' = Request("putStatus", 404, u, 0, Absent, Absent, Absent)
            /\ emitted' = {}
            /\ UNCHANGED <<tasks, projects>>
     ELSE IF status = "delayed" /\ DelayReasonMissing(reason)
       THEN /\ last' = Request("putStatus", 400, u, 0, Absent, status, reason)
            /\ emitted' = {}
            /\ UNCHANGED <<tasks, projects>>
     ELSE IF tasks[t].project \notin DOMAIN projects
       \* the populated project is null: a TypeError after the task was
       \* updated, answered 500 by the catch block
       THEN /\ LogTotal(tasks) < MaxLog
            /\ tasks' = [tasks EXCEPT ![t] = ApplyStatusUpdate(tasks[t], u, status, reason)]
            /\ last' = Request("putStatus", 500, u, t, Absent, status, reason)
            /\ emitted' = {}
            /\ UNCHANGED projects
     ELSE /\ LogTotal(tasks) < MaxLog
          /\ LET p == tasks[t].project
                 ts == [tasks EXCEPT ![t] = ApplyStatusUpdate(tasks[t], u, status, reason)]
             IN /\ tasks' = ts
                /\ projects' = [projects EXCEPT
                                  ![p] = Propagate(EnsureLinked(projects[p], t), ts, p)]
                /\ emitted' = LegacyEmit(
                                 LegacyEmit({}, <<"user_", tasks[t].assignedBy>>,
                                            "task_status_updated", t),
                                 <<"superadmin">>, "task_status_updated", t)
                /\ last' = Request("putStatus", 200, u, t, p, status, reason)
  /\ UNCHANGED <<sessions, process, callers, requests, users, sockets, nextSocket, connectedUsers, notifications, dispatches>>

(***************************************************************************)
(* POST /api/tasks (manager): save the task, push it on the project's      *)
(* tasks array and save the project (pre-save hook: tasksCount).           *)
(***************************************************************************)
CreateTask(m, p, tech) ==
  /\ Len(tasks) < MaxTasks
  /\ p \in DOMAIN projects
  /\ projects[p].assignedManager = m
  /\ tech \in Technicians
  /\ LET t == Len(tasks) + 1
     IN /\ tasks' = Append(tasks, NewTask(p, tech, m))
        /\ projects' = [projects EXCEPT
                          ![p].tasks = @ \cup {t},
                          ![p].tasksCount = Cardinality(projects[p].tasks \cup {t})]
        /\ emitted' = LegacyEmit({}, <<"user_", tech>>, "task_assigned", t)
        /\ last' = Request("createTask", 201, m, t, p, Absent, Absent)
  /\ UNCHANGED <<sessions, process, callers, requests, users, sockets, nextSocket, connectedUsers, notifications, dispatches>>

(***************************************************************************)
(* POST /api/manager/tasks: Task.create, then $addToSet on the project     *)
(* through findByIdAndUpdate (no save hook runs).                          *)
(***************************************************************************)
ManagerCreateTask(m, p, tech) ==
  /\ Len(tasks) < MaxTasks
  /\ p \in DOMAIN projects
  /\ projects[p].assignedManager = m
  /\ tech \in Technicians
  /\ LET t == Len(tasks) + 1
     IN /\ tasks' = Append(tasks, NewTask(p, tech, m))
        /\ projects' = [projects EXCEPT ![p].tasks = @ \cup {t}]
        /\ emitted' = {}
        /\ last' = Request("managerCreateTask", 201, m, t, p, Absent, Absent)
  /\ UNCHANGED <<sessions, process, callers, requests, users, sockets, nextSocket, connectedUsers, notifications, dispatches>>

(***************************************************************************)
(* taskSchema.pre('save') as it acts on a modified status.                 *)
(***************************************************************************)
TaskPreSave(task) ==
  LET s == task.status
  IN [task EXCEPT
        !.progress =
          IF IsCompletedStatus(s) THEN 100
          ELSE IF s \in {"assigned", "Pending"} THEN 0
          ELSE IF s \in {"in_progress", "In Progress"} /\ task.progress = 0 THEN 25
          ELSE @]

(***************************************************************************)
(* POST /api/reports (technician): marks the task 'Completed' and saves.   *)
(***************************************************************************)
SubmitReport(u, t) ==
  /\ t \in 1..MaxTasks
  /\ IF t \notin DOMAIN tasks
       THEN /\ last' = Request("submitReport", 404, u, 0, Absent, Absent, Absent)
            /\ emitted' = {}
            /\ UNCHANGED <<tasks, projects>>
     ELSE IF tasks[t].assignedTo # u
       THEN /\ last' = Request("submitReport", 403, u, 0, Absent, Absent, Absent)
            /\ emitted' = {}
            /\ UNCHANGED <<tasks, projects>>
     ELSE IF IsCompletedStatus(tasks[t].status)
       THEN /\ last' = Request("submitReport", 400, u, 0, Absent, Absent, Absent)
            /\ emitted' = {}
            /\ UNCHANGED <<tasks, projects>>
     ELSE IF tasks[t].project \notin DOMAIN projects
       \* task.project is null: project.assignedManager throws after task.save()
       THEN /\ tasks' = [tasks EXCEPT
                           ![t] = TaskPreSave([tasks[t] EXCEPT !.status = "Completed"])]
            /\ last' = Request("submitReport", 500, u, t, Absent, "Completed", Absent)
            /\ emitted' = {}
            /\ UNCHANGED projects
     ELSE /\ tasks' = [tasks EXCEPT ![t] = TaskPreSave([tasks[t] EXCEPT !.status = "Completed"])]
          /\ emitted' = LegacyEmit(
                           LegacyEmit({},
                                      <<"user_", projects[tasks[t].project].assignedManager>>,
                                      "report_submitted", t),
                           <<"superadmin">>, "report_submitted", t)
          /\ last' = Request("submitReport", 201, u, t, tasks[t].project, "Completed", Absent)
          /\ UNCHANGED projects
  /\ UNCHANGED <<sessions, process, callers, requests, users, sockets, nextSocket, connectedUsers, notifications, dispatches>>

(***************************************************************************)
(* PATCH /api/projects/:id/status                                          *)
(***************************************************************************)
\* Task.updateMany({project, status: {$ne: 'Completed'}}, {status: 'Completed'})
BulkComplete(ts, p) ==
  [i \in DOMAIN ts |->
     IF ts[i].project = p /\ ts[i].status # "Completed"
       THEN [ts[i] EXCEPT !.status = "Completed"]
       ELSE ts[i]]

SetProjectStatus(m, p, status) ==
  /\ p \in DOMAIN projects
  /\ projects[p].assignedManager = m
  /\ IF status = "Completed" /\ ~projects[p].endDate
       THEN /\ tasks' = BulkComplete(tasks, p)
            /\ projects' = [projects EXCEPT
                              ![p].status = status,
                              ![p].endDate = TRUE,
                              ![p].completionPercentage = 100,
                              ![p].progress = 100]
       ELSE /\ projects' = [projects EXCEPT ![p].status = status]
            /\ UNCHANGED tasks
  /\ emitted' = LegacyEmit({}, <<"superadmin">>, "project_status_updated", p)
  /\ last' = Request("setProjectStatus", 200, m, 0, p, status, Absent)
  /\ UNCHANGED <<sessions, process, callers, requests, users, sockets, nextSocket, connectedUsers, notifications, dispatches>>

(***************************************************************************)
(* PUT /api/projects/:id: Object.assign(project, req.body); project.save() *)
(* with a body that carries completionPercentage.                          *)
(***************************************************************************)
\* A completionPercentage a client puts in the request body.
ClientPercentages == {75}

\* Object.assign + the pre-save hook that copies a modified
\* completionPercentage into progress.
AssignBody(proj, pct) ==
  IF pct = proj.completionPercentage THEN proj
  ELSE [proj EXCEPT !.completionPercentage = pct, !.progress = pct]

UpdateProject(m, p, pct) ==
  /\ p \in DOMAIN projects
  /\ projects[p].assignedManager = m
  /\ projects' = [projects EXCEPT ![p] = AssignBody(projects[p], pct)]
  /\ last' = Request("updateProject", 200, m, 0, p, Absent, Absent)
  /\ emitted' = {}
  /\ UNCHANGED <<sessions, process, callers, requests, tasks, users, sockets, nextSocket, connectedUsers, notifications,
                 dispatches>>

(***************************************************************************)
(* Project deletion: DELETE /api/projects/:id and DELETE                   *)
(* /api/superadmin/projects/:id.                                           *)
(***************************************************************************)
\* Project.findByIdAndDelete(id)
RemoveProject(ps, p) == [q \in DOMAIN ps \ {p} |-> ps[q]]

\* Task.deleteMany({ project: p }).  A task's id is its position; the
\* deleted project's tasks are the only ones while there is one project.
DeleteTasksOf(ts, p) == SelectSeq(ts, LAMBDA task : task.project # p)

\* DELETE /api/projects/:id: the project document only.
DeleteProject(m, p) ==
  /\ IF p \notin DOMAIN projects
       THEN /\ last' = Request("deleteProject", 404, m, 0, Absent, Absent, Absent)
            /\ UNCHANGED <<tasks, projects>>
     ELSE IF projects[p].assignedManager # m
       THEN /\ last' = Request("deleteProject", 403, m, 0, Absent, Absent, Absent)
            /\ UNCHANGED <<tasks, projects>>
     ELSE /\ projects' = RemoveProject(projects, p)
          /\ last' = Request("deleteProject", 200, m, 0, p, Absent, Absent)
          /\ UNCHANGED tasks
  /\ emitted' = {}
  /\ UNCHANGED <<sessions, process, callers, requests, users, sockets, nextSocket, connectedUsers, notifications, dispatches>>

\* DELETE /api/superadmin/projects/:id: the project, then its tasks.
AdminDeleteProject(p) ==
  /\ IF p \notin DOMAIN projects
       THEN /\ last' = Request("adminDeleteProject", 404, Absent, 0, Absent, Absent, Absent)
            /\ UNCHANGED <<tasks, projects>>
     ELSE /\ projects' = RemoveProject(projects, p)
          /\ tasks' = DeleteTasksOf(tasks, p)
          /\ last' = Request("adminDeleteProject", 200, Absent, 0, p, Absent, Absent)
  /\ emitted' = {}
  /\ UNCHANGED <<sessions, process, callers, requests, users, sockets, nextSocket, connectedUsers, notifications, dispatches>>

(***************************************************************************)
(* The socket server (socket/socketServer.js): users, handshake, presence  *)
(* map, rooms and notification dispatch.                                   *)
(***************************************************************************)
UserIds == {"s1", "m1"}

\* The User documents: role and the isActive flag.
SeededUsers ==
  [u \in UserIds |->
     [role |-> IF u = "s1" THEN "superadmin" ELSE "manager", isActive |-> TRUE]]

\* Credentials a client presents at the handshake: none, or a token with a
\* good or bad signature for the id of a user that exists or does not.
NoToken == [present |-> FALSE, valid |-> FALSE, id |-> Absent]
Tokens ==
  {NoToken} \cup
  {[present |-> TRUE, valid |-> v, id |-> i] : v \in BOOLEAN, i \in UserIds \cup {"ghost"}}

\* Role names the callers of sendNotificationToRole pass.
RoleInputs == {"superadmin", "manager", "super-admin"}

\* io.use(...): the handshake middleware accepts the connection.
HandshakeAccepts(token, us) ==
  /\ token.present
  /\ token.valid
  /\ token.id \in DOMAIN us

\* The rooms the connection handler joins.
JoinedRooms(userId, user) == {<<"user:", userId>>, <<"role:", user.role>>}

\* Sockets currently in a room (io.to(room)).
RoomMembers(socks, room) == {s \in socks : room \in s.rooms}

\* deleteUser controller / deactivateUser service: soft delete.
DeactivateUser(u) ==
  /\ u \in DOMAIN users
  /\ users[u].isActive
  /\ users' = [users EXCEPT ![u].isActive = FALSE]
  /\ emitted' = {}
  /\ UNCHANGED <<sessions, process, callers, requests, tasks, projects, last, sockets, nextSocket, connectedUsers,
                 notifications, dispatches>>

\* A client connects: middleware, then the 'connection' handler.
Connect(token) ==
  /\ nextSocket <= MaxSockets
  /\ HandshakeAccepts(token, users)
  /\ LET sid == nextSocket
         uid == token.id
         sock == [id |-> sid, token |-> token, userId |-> uid, user |-> users[uid],
                  rooms |-> JoinedRooms(uid, users[uid])]
     IN /\ sockets' = sockets \cup {sock}
        /\ connectedUsers' =
             [x \in DOMAIN connectedUsers \cup {uid} |->
                IF x = uid THEN sid ELSE connectedUsers[x]]
        /\ emitted' = {[via |-> "socketServer", event |-> "connected", to |-> {sid},
                         dispatch |-> 0, user |-> uid]}
        /\ nextSocket' = nextSocket + 1
  /\ UNCHANGED <<sessions, process, callers, requests, tasks, projects, last, users, notifications, dispatches>>

\* A handshake the middleware refuses: next(new Error(...)), nothing else.
RefuseConnect(token) ==
  /\ ~HandshakeAccepts(token, users)
  /\ emitted' = {}
  /\ UNCHANGED <<sessions, process, callers, requests, tasks, projects, last, users, sockets, nextSocket, connectedUsers,
                 notifications, dispatches>>

\* connectedUsers.delete(socket.userId)
UnregisterOnDisconnect(cu, sock) ==
  [x \in DOMAIN cu \ {sock.userId} |-> cu[x]]

\* socket.on('disconnect')
Disconnect(sock) ==
  /\ sock \in sockets
  /\ sockets' = sockets \ {sock}
  /\ connectedUsers' = UnregisterOnDisconnect(connectedUsers, sock)
  /\ emitted' = {}
  /\ UNCHANGED <<sessions, process, callers, requests, tasks, projects, last, users, nextSocket, notifications, dispatches>>

(***************************************************************************)
(* Dispatch: sendNotificationToUser / ToUsers / ToRole / ToAll.  A dispatch *)
(* keeps, per target, where its sendNotificationToUser call stands:        *)
(* "pending" (Notification.create awaited), "saved" (row written, the      *)
(* continuation not yet run), "done", or "failed" (create or emit threw).  *)
(* The kinds "realtime" / "realtimeNoServer" are calls of                  *)
(* notificationService.sendRealTimeNotification with global.socketServer   *)
(* set / unset.  result is what a single-target call returns: the _id of   *)
(* the row (its index in the collection).                                  *)
(***************************************************************************)
SingleKinds == {"user", "realtime", "realtimeNoServer"}

\* No record returned (row ids start at 1).
NoRow == 0

ServiceKinds == {"realtime", "realtimeNoServer"}

NewDispatch(kind, role, targets) ==
  [kind |-> kind, role |-> role, targets |-> targets,
   state |-> [u \in targets |-> "pending"], outcome |-> "running",
   result |-> NoRow]

StartDispatch(kind, role, targets) ==
  /\ Len(dispatches) < MaxDispatches
  /\ dispatches' = Append(dispatches, NewDispatch(kind, role, targets))
  /\ emitted' = {}
  /\ UNCHANGED <<sessions, process, callers, requests, tasks, projects, last, users, sockets, nextSocket, connectedUsers,
                 notifications>>

\* sendNotificationToUser(userId, notification)
NotifyUser(u) == StartDispatch("user", Absent, {u})

\* notificationService.sendRealTimeNotification(userId, notification)
NotifyRealTime(u, server) ==
  StartDispatch(IF server THEN "realtime" ELSE "realtimeNoServer", Absent, {u})

\* sendNotificationToUsers(userIds, notification)
NotifyUsers(us) == us # {} /\ StartDispatch("users", Absent, us)

\* sendNotificationToRole: User.find({ role }) resolves the targets.
UsersWithRole(us, role) == {u \in DOMAIN us : us[u].role = role}

NotifyRole(role) == StartDispatch("role", role, UsersWithRole(users, role))

\* sendNotificationToAll: User.find() resolves the targets.
NotifyAll == StartDispatch("all", Absent, DOMAIN users)

\* A target's create is abandoned as soon as another target has failed.
CanPersistFailFast(disp, u) ==
  disp.state[u] = "pending" /\ \A v \in disp.targets : disp.state[v] # "failed"

\* userIds.map(userId => this.sendNotificationToUser(...)): every target's
\* call runs on its own, whatever the others do.
CanPersist(disp, u) == disp.state[u] = "pending"

\* Notification.create resolves: the row is written.  Without a socket
\* server saveNotificationToDatabase returns the row and there is no push.
Persist(d, u) ==
  /\ d \in DOMAIN dispatches
  /\ u \in dispatches[d].targets
  /\ CanPersist(dispatches[d], u)
  /\ notifications' = Append(notifications, [userId |-> u, dispatch |-> d])
  /\ dispatches' =
       IF dispatches[d].kind = "realtimeNoServer"
         THEN [dispatches EXCEPT ![d].state[u] = "done",
                                 ![d].result = Len(notifications) + 1]
         ELSE [dispatches EXCEPT ![d].state[u] = "saved"]
  /\ emitted' = {}
  /\ UNCHANGED <<sessions, process, callers, requests, tasks, projects, last, users, sockets, nextSocket, connectedUsers>>

\* Notification.create rejects: the catch block rethrows.
PersistFails(d, u) ==
  /\ d \in DOMAIN dispatches
  /\ u \in dispatches[d].targets
  /\ CanPersist(dispatches[d], u)
  /\ dispatches' = [dispatches EXCEPT ![d].state[u] = "failed"]
  /\ emitted' = {}
  /\ UNCHANGED <<sessions, process, callers, requests, tasks, projects, last, users, sockets, nextSocket, connectedUsers,
                 notifications>>

\* The emit of sendNotificationToUser comes after the awaited create.
CanPushBeforeSave(st) == st \in {"pending", "saved"}

CanPush(st) == st = "saved"

\* The row index of dispatch d for user u: the _id of savedNotification.
RowOf(rows, d, u) ==
  IF \E i \in DOMAIN rows : rows[i] = [userId |-> u, dispatch |-> d]
    THEN CHOOSE i \in DOMAIN rows : rows[i] = [userId |-> u, dispatch |-> d]
    ELSE NoRow

\* The record is returned only from inside the if (socketId) branch.
ReturnOnlyIfConnected(rows, cu, d, u) ==
  IF u \in DOMAIN cu THEN RowOf(rows, d, u) ELSE NoRow

\* return savedNotification, after the if / else on socketId.
ReturnOfNotifyUser(rows, cu, d, u) == RowOf(rows, d, u)

\* After the await: look the user up in connectedUsers and emit to that
\* socket id if there is one.
Push(d, u) ==
  /\ d \in DOMAIN dispatches
  /\ u \in dispatches[d].targets
  /\ CanPush(dispatches[d].state[u])
  /\ emitted' =
       IF u \in DOMAIN connectedUsers
         THEN {[via |-> "socketServer", event |-> "notification:new",
                to |-> {s.id : s \in {x \in sockets : x.id = connectedUsers[u]}},
                dispatch |-> d, user |-> u]}
         ELSE {}
  /\ dispatches' =
       [dispatches EXCEPT
          ![d].state[u] = "done",
          ![d].result = IF dispatches[d].kind \in SingleKinds
                          THEN ReturnOfNotifyUser(notifications, connectedUsers, d, u)
                          ELSE @]
  /\ UNCHANGED <<sessions, process, callers, requests, tasks, projects, last, users, sockets, nextSocket, connectedUsers,
                 notifications>>

\* The emit throws after the row was written: the catch block of
\* sendNotificationToUser rethrows.
PushFails(d, u) ==
  /\ d \in DOMAIN dispatches
  /\ u \in dispatches[d].targets
  /\ CanPush(dispatches[d].state[u])
  /\ u \in DOMAIN connectedUsers
  /\ dispatches' = [dispatches EXCEPT ![d].state[u] = "failed"]
  /\ emitted' = {}
  /\ UNCHANGED <<sessions, process, callers, requests, tasks, projects, last, users, sockets, nextSocket, connectedUsers,
                 notifications>>

\* The catch block of sendRealTimeNotification: "Fallback to database only",
\* a second Notification.create whose row is returned.
FallbackSave(d) ==
  /\ d \in DOMAIN dispatches
  /\ dispatches[d].kind \in ServiceKinds
  /\ dispatches[d].outcome = "running"
  /\ \E u \in dispatches[d].targets :
       /\ dispatches[d].state[u] = "failed"
       /\ notifications' = Append(notifications, [userId |-> u, dispatch |-> d])
       /\ dispatches' = [dispatches EXCEPT ![d].state[u] = "done",
                                           ![d].outcome = "resolved",
                                           ![d].result = Len(notifications) + 1]
  /\ emitted' = {}
  /\ UNCHANGED <<sessions, process, callers, requests, tasks, projects, last, users, sockets, nextSocket, connectedUsers>>

\* The fallback create rejects too: the first error is thrown to the caller.
FallbackFails(d) ==
  /\ d \in DOMAIN dispatches
  /\ dispatches[d].kind \in ServiceKinds
  /\ dispatches[d].outcome = "running"
  /\ \E u \in dispatches[d].targets : dispatches[d].state[u] = "failed"
  /\ dispatches' = [dispatches EXCEPT ![d].outcome = "rejected"]
  /\ emitted' = {}
  /\ UNCHANGED <<sessions, process, callers, requests, tasks, projects, last, users, sockets, nextSocket, connectedUsers,
                 notifications>>

\* Promise.all settles: it rejects with the first failed target, or
\* resolves when every target is done; ToRole / ToAll then emit to the role
\* room / to every socket.
Settle(d) ==
  /\ d \in DOMAIN dispatches
  /\ dispatches[d].outcome = "running"
  /\ LET st == dispatches[d].state
         failed == \E u \in DOMAIN st : st[u] = "failed"
         alldone == \A u \in DOMAIN st : st[u] = "done"
     IN /\ failed \/ alldone
        /\ failed => dispatches[d].kind \notin ServiceKinds
        /\ dispatches' = [dispatches EXCEPT
                            ![d].outcome = IF failed THEN "rejected" ELSE "resolved"]
        /\ emitted' =
             IF ~failed /\ dispatches[d].kind \in {"role", "all"}
               THEN {[via |-> "socketServer", event |-> "notification:new",
                      to |-> IF dispatches[d].kind = "role"
                               THEN {s.id : s \in RoomMembers(sockets,
                                                    <<"role:", dispatches[d].role>>)}
                               ELSE {s.id : s \in sockets},
                      dispatch |-> d, user |-> Absent]}
               ELSE {}
  /\ UNCHANGED <<sessions, process, callers, requests, tasks, projects, last, users, sockets, nextSocket, connectedUsers,
                 notifications>>

(***************************************************************************)
(* PUT /api/technician/tasks/:taskId/status served step by step: the       *)
(* handler awaits each database call, and other requests run between its   *)
(* awaits.  A request goes through                                         *)
(*   "updated"       Task.findByIdAndUpdate done                           *)
(*   "projectRead"   parentProject loaded (and linked to the task)         *)
(*   "tasksRead"     Task.find({ project }) done, counts computed          *)
(*   "countsWritten" Project.findByIdAndUpdate(counts) done                *)
(*   "done"          status written if it differs; response sent.          *)
(***************************************************************************)
\* Statuses the recompute tells apart.
RaceStatuses == {"in_progress", "completed"}

\* No request is between two of its awaits.
NoneInFlight(reqs) == \A r \in DOMAIN reqs : reqs[r].pc = "done"

\* The stored counts or percentage of project p differ from the handler's
\* recompute over the task collection.
StoredDiffers(ts, ps, p) ==
  LET c == Cardinality(HandlerCompleted(ts, p))
      t == Cardinality(ProjectTasks(ts, p))
  IN \/ ps[p].completedTasks # c
     \/ ps[p].tasksCount # t
     \/ t > 0 /\ ps[p].completionPercentage # RoundPct(c, t)

\* findOne + findByIdAndUpdate of the task (lines 110-188).
ReqUpdateTask(u, t, status) ==
  /\ Len(requests) < MaxRequests
  /\ t \in DOMAIN tasks
  /\ tasks[t].assignedTo = u
  /\ tasks[t].project \in DOMAIN projects
  /\ tasks' = [tasks EXCEPT ![t] = ApplyStatusUpdate(tasks[t], u, status, Absent)]
  /\ requests' = Append(requests,
                        [task |-> t, user |-> u, status |-> status, pc |-> "updated",
                         projStatus |-> Absent, completed |-> 0, total |-> 0,
                         alone |-> NoneInFlight(requests),
                         staleBefore |-> StoredDiffers(tasks, projects, tasks[t].project)])
  /\ emitted' = {}
  /\ UNCHANGED <<sessions, process, callers, projects, last, users, sockets, nextSocket, connectedUsers,
                 notifications, dispatches>>

\* Project.findById(...) and the "ensure linked" push + save (lines 197-205).
ReqReadProject(r) ==
  /\ r \in DOMAIN requests
  /\ requests[r].pc = "updated"
  /\ LET t == requests[r].task
         p == tasks[t].project
     IN /\ requests' = [requests EXCEPT ![r].pc = "projectRead",
                                        ![r].projStatus = projects[p].status]
        /\ projects' = [projects EXCEPT ![p] = EnsureLinked(projects[p], t)]
  /\ emitted' = {}
  /\ UNCHANGED <<sessions, process, callers, tasks, last, users, sockets, nextSocket, connectedUsers,
                 notifications, dispatches>>

\* Task.find({ project }) and the counts computed from it (lines 209-215).
ReqReadTasks(r) ==
  /\ r \in DOMAIN requests
  /\ requests[r].pc = "projectRead"
  /\ LET p == tasks[requests[r].task].project
     IN requests' = [requests EXCEPT
                       ![r].pc = "tasksRead",
                       ![r].completed = Cardinality(HandlerCompleted(tasks, p)),
                       ![r].total = Cardinality(ProjectTasks(tasks, p))]
  /\ emitted' = {}
  /\ UNCHANGED <<sessions, process, callers, tasks, projects, last, users, sockets, nextSocket, connectedUsers,
                 notifications, dispatches>>

\* The count is taken again from the task collection at the time of the write.
CompletedAtWrite(req, ts, p) == Cardinality(HandlerCompleted(ts, p))

\* completedTasks: completedTasks.length, the count of the request's own read.
CompletedToWrite(req, ts, p) == req.completed

\* Project.findByIdAndUpdate(id, { completedTasks, tasksCount,
\* completionPercentage }) (lines 217-221).
ReqWriteCounts(r) ==
  /\ r \in DOMAIN requests
  /\ requests[r].pc = "tasksRead"
  /\ LET p == tasks[requests[r].task].project
         c == CompletedToWrite(requests[r], tasks, p)
         t == requests[r].total
     IN projects' = IF t > 0
                      THEN [projects EXCEPT ![p].completedTasks = c,
                                            ![p].tasksCount = t,
                                            ![p].completionPercentage = RoundPct(c, t)]
                      ELSE projects
  /\ requests' = [requests EXCEPT ![r].pc = "countsWritten"]
  /\ emitted' = {}
  /\ UNCHANGED <<sessions, process, callers, tasks, last, users, sockets, nextSocket, connectedUsers,
                 notifications, dispatches>>

\* The status write when newProjectStatus differs from the status read with
\* the project, the emits and the response (lines 223-274).
ReqWriteStatus(r) ==
  /\ r \in DOMAIN requests
  /\ requests[r].pc = "countsWritten"
  /\ LET t == requests[r].task
         p == tasks[t].project
         new == NewProjectStatus(requests[r].completed, requests[r].total)
     IN /\ projects' = IF requests[r].total > 0 /\ new # requests[r].projStatus
                         THEN [projects EXCEPT ![p].status = new]
                         ELSE projects
        /\ emitted' = LegacyEmit(
                         LegacyEmit({}, <<"user_", tasks[t].assignedBy>>,
                                    "task_status_updated", t),
                         <<"superadmin">>, "task_status_updated", t)
        /\ last' = Request("putStatus", 200, requests[r].user, t, p,
                           requests[r].status, Absent)
  /\ requests' = [requests EXCEPT ![r].pc = "done"]
  /\ UNCHANGED <<sessions, process, callers, tasks, users, sockets, nextSocket, connectedUsers,
                 notifications, dispatches>>

(***************************************************************************)
(* Handlers that start a notification dispatch.  callers[d] records, for   *)
(* the dispatch d a handler started, whether the handler awaits its        *)
(* promise inside a try / catch and the response code once it has answered *)
(* (0 before).                                                             *)
(***************************************************************************)
\* Ids a created project can take.
NewProjectIds == {"p2"}

\* The role name the project routes and the project senders pass.
ProjectNotifyRole == "super-admin"

Caller(op, by, awaited, code, subject) ==
  [op |-> op, by |-> by, awaited |-> awaited, code |-> code, subject |-> subject]

SetCaller(cs, d, c) == [x \in DOMAIN cs \cup {d} |-> IF x = d THEN c ELSE cs[x]]

\* Nothing runs once the process has exited.
Alive == process # "exited"

\* POST /api/projects: save the project, call
\* global.socketServer.sendNotificationToRole('super-admin', ...) without
\* awaiting it, answer 201.  found: User.find({ role }) resolves; otherwise it
\* rejects and so does the promise of the call.
PostProject(m, p, found) ==
  /\ process = "running"
  /\ m \in Managers
  /\ p \in NewProjectIds \ DOMAIN projects
  /\ Len(dispatches) < MaxDispatches
  /\ projects' = [x \in DOMAIN projects \cup {p} |->
                    IF x = p THEN NewProject(m) ELSE projects[x]]
  /\ LET d == Len(dispatches) + 1
         disp == NewDispatch("role", ProjectNotifyRole,
                             UsersWithRole(users, ProjectNotifyRole))
     IN /\ dispatches' = Append(dispatches,
                                IF found THEN disp ELSE [disp EXCEPT !.outcome = "rejected"])
        /\ callers' = SetCaller(callers, d, Caller("createProject", m, FALSE, 201, p))
  /\ last' = Request("createProject", 201, m, 0, p, Absent, Absent)
  /\ emitted' = {}
  /\ UNCHANGED <<tasks, requests, sessions, process, users, sockets, nextSocket,
                 connectedUsers, notifications>>

\* POST /api/tasks up to the awaited
\* notificationService.sendTaskAssignedNotification(technician._id, ...).
AssignTask(m, p, tech) ==
  /\ process = "running"
  /\ Len(tasks) < MaxTasks
  /\ Len(dispatches) < MaxDispatches
  /\ p \in DOMAIN projects
  /\ projects[p].assignedManager = m
  /\ tech \in Technicians
  /\ LET t == Len(tasks) + 1
         d == Len(dispatches) + 1
     IN /\ tasks' = Append(tasks, NewTask(p, tech, m))
        /\ projects' = [projects EXCEPT
                          ![p].tasks = @ \cup {t},
                          ![p].tasksCount = Cardinality(projects[p].tasks \cup {t})]
        /\ dispatches' = Append(dispatches, NewDispatch("realtime", Absent, {tech}))
        /\ callers' = SetCaller(callers, d, Caller("assignTask", m, TRUE, 0, t))
  /\ emitted' = {}
  /\ UNCHANGED <<last, requests, sessions, process, users, sockets, nextSocket,
                 connectedUsers, notifications>>

\* The await returns or throws into the catch ("Don't fail the request if
\* notification fails"): res.status(201).
AssignTaskRespond(d) ==
  /\ d \in DOMAIN callers
  /\ Alive
  /\ callers[d].op = "assignTask"
  /\ callers[d].code = 0
  /\ dispatches[d].outcome \in {"resolved", "rejected"}
  /\ callers' = [callers EXCEPT ![d].code = 201]
  /\ last' = Request("assignTask", 201, tasks[callers[d].subject].assignedBy,
                     callers[d].subject, tasks[callers[d].subject].project,
                     Absent, Absent)
  /\ emitted' = {}
  /\ UNCHANGED <<tasks, projects, requests, sessions, process, users, sockets,
                 nextSocket, connectedUsers, notifications, dispatches>>

\* A request of the notification routes and its response.
ClientRequest(op, code, by, target) ==
  [op |-> op, code |-> code, by |-> by, target |-> target]

\* router.use(protect): the requester is a user that exists and is active.
Authenticated(us, u) == u \in DOMAIN us /\ us[u].isActive

\* authorize('super-admin', 'manager')
MayCreateNotification(role) == role \in {"super-admin", "manager"}

\* POST /api/notifications: createNotification writes the row with the
\* userId of the body.
PostNotification(by, target) ==
  /\ process = "running"
  /\ Authenticated(users, by)
  /\ Len(notifications) < MaxRows
  /\ IF MayCreateNotification(users[by].role)
       THEN /\ notifications' = Append(notifications, [userId |-> target, dispatch |-> 0])
            /\ last' = ClientRequest("postNotification", 201, by, target)
       ELSE /\ last' = ClientRequest("postNotification", 403, by, target)
            /\ UNCHANGED notifications
  /\ emitted' = {}
  /\ UNCHANGED <<tasks, projects, requests, sessions, process, callers, users, sockets,
                 nextSocket, connectedUsers, dispatches>>

\* POST /api/notifications/test up to the awaited
\* notificationService.sendRealTimeNotification(userId, testNotification).
PostTestNotification(by, target) ==
  /\ process = "running"
  /\ Authenticated(users, by)
  /\ Len(dispatches) < MaxDispatches
  /\ dispatches' = Append(dispatches, NewDispatch("realtime", Absent, {target}))
  /\ callers' = SetCaller(callers, Len(dispatches) + 1,
                          Caller("testNotification", by, TRUE, 0, target))
  /\ emitted' = {}
  /\ UNCHANGED <<tasks, projects, last, requests, sessions, process, users, sockets,
                 nextSocket, connectedUsers, notifications>>

\* The await returns (200 with the record) or throws into the catch (500).
TestNotificationRespond(d) ==
  /\ d \in DOMAIN callers
  /\ Alive
  /\ callers[d].op = "testNotification"
  /\ callers[d].code = 0
  /\ dispatches[d].outcome \in {"resolved", "rejected"}
  /\ LET code == IF dispatches[d].outcome = "resolved" THEN 200 ELSE 500
     IN /\ callers' = [callers EXCEPT ![d].code = code]
        /\ last' = ClientRequest("testNotification", code, callers[d].by,
                                 callers[d].subject)
  /\ emitted' = {}
  /\ UNCHANGED <<tasks, projects, requests, sessions, process, users, sockets,
                 nextSocket, connectedUsers, notifications, dispatches>>

(***************************************************************************)
(* Sessions: login creates a LoginSession for the token it issues; logout  *)
(* and changePassword deactivate sessions; protect guards every route.     *)
(***************************************************************************)
\* A request of the auth routes, or one behind protect, and its response.
AuthRequest(op, code, tok) == [op |-> op, code |-> code, token |-> tok]

\* protect: jwt.verify, User.findById(decoded.id), user.isActive.
ProtectAccepts(us, ss, tok) ==
  /\ ss[tok].userId \in DOMAIN us
  /\ us[ss[tok].userId].isActive

\* POST /api/auth/login with good credentials.
Login(u) ==
  /\ Len(sessions) < MaxSessions
  /\ u \in DOMAIN users
  /\ users[u].isActive
  /\ sessions' = Append(sessions, [userId |-> u, isActive |-> TRUE])
  /\ last' = AuthRequest("login", 200, Len(sessions) + 1)
  /\ emitted' = {}
  /\ UNCHANGED <<tasks, projects, requests, process, callers, users, sockets,
                 nextSocket, connectedUsers, notifications, dispatches>>

\* POST /api/auth/logout behind protect: session.deactivate().
Logout(tok) ==
  /\ tok \in DOMAIN sessions
  /\ IF ProtectAccepts(users, sessions, tok)
       THEN /\ sessions' = [sessions EXCEPT ![tok].isActive = FALSE]
            /\ last' = AuthRequest("logout", 200, tok)
       ELSE /\ last' = AuthRequest("logout", 401, tok)
            /\ UNCHANGED sessions
  /\ emitted' = {}
  /\ UNCHANGED <<tasks, projects, requests, process, callers, users, sockets,
                 nextSocket, connectedUsers, notifications, dispatches>>

\* PUT /api/auth/change-password behind protect: LoginSession.updateMany
\* deactivates every session of the user; a wrong current password is 400.
ChangePassword(tok, passwordOk) ==
  /\ tok \in DOMAIN sessions
  /\ IF ~ProtectAccepts(users, sessions, tok)
       THEN /\ last' = AuthRequest("changePassword", 401, tok)
            /\ UNCHANGED sessions
     ELSE IF ~passwordOk
       THEN /\ last' = AuthRequest("changePassword", 400, tok)
            /\ UNCHANGED sessions
     ELSE /\ sessions' = [i \in DOMAIN sessions |->
                            IF sessions[i].userId = sessions[tok].userId
                              THEN [sessions[i] EXCEPT !.isActive = FALSE]
                              ELSE sessions[i]]
          /\ last' = AuthRequest("changePassword", 200, tok)
  /\ emitted' = {}
  /\ UNCHANGED <<tasks, projects, requests, process, callers, users, sockets,
                 nextSocket, connectedUsers, notifications, dispatches>>

\* Any route behind protect (GET /api/auth/me), called with the token.
ProtectedRequest(tok) ==
  /\ tok \in DOMAIN sessions
  /\ last' = AuthRequest("request",
                         IF ProtectAccepts(users, sessions, tok) THEN 200 ELSE 401, tok)
  /\ emitted' = {}
  /\ UNCHANGED <<tasks, projects, requests, sessions, process, callers, users, sockets,
                 nextSocket, connectedUsers, notifications, dispatches>>

\* process.on('unhandledRejection'): a rejected promise nobody awaits;
\* logger.error, then server.close(...).
UnhandledRejection(d) ==
  /\ process = "running"
  /\ d \in DOMAIN callers
  /\ ~callers[d].awaited
  /\ dispatches[d].outcome = "rejected"
  /\ process' = "closing"
  /\ emitted' = {}
  /\ UNCHANGED <<tasks, projects, last, requests, sessions, callers, users, sockets,
                 nextSocket, connectedUsers, notifications, dispatches>>

\* The callback of server.close: process.exit(1).
ProcessExit ==
  /\ process = "closing"
  /\ sockets = {}
  /\ process' = "exited"
  /\ emitted' = {}
  /\ UNCHANGED <<tasks, projects, last, requests, sessions, callers, users, sockets,
                 nextSocket, connectedUsers, notifications, dispatches>>

Init ==
  /\ tasks = <<>>
  /\ projects = [p \in ProjectIds |-> NewProject("m1")]
  /\ last = NoRequest
  /\ users = SeededUsers
  /\ sockets = {}
  /\ nextSocket = 1
  /\ connectedUsers = <<>>
  /\ notifications = <<>>
  /\ dispatches = <<>>
  /\ emitted = {}
  /\ requests = <<>>
  /\ sessions = <<>>
  /\ process = "running"
  /\ callers = <<>>

(***************************************************************************)
(* Claims about status propagation, checked under Spec.                    *)
(***************************************************************************)
\* round(100 * c / t) for t > 0, as the nearest integer (halves upwards).
RoundedPercent(c, t) ==
  CHOOSE n \in 0..100 : 2 * n * t - t <= 200 * c /\ 200 * c < 2 * n * t + t

CompletedTasksOf(ts, p) == {i \in ProjectTasks(ts, p) : IsCompletedStatus(ts[i].status)}

\* C1: after each completed propagation step of the technician handler the
\* project's completionPercentage is round(100 * completed / total) (0 without
\* tasks), and completedTasks and tasksCount are those two counts.
C1_DerivedFieldsMatchTasks ==
  (last.op = "putStatus" /\ last.code = 200) =>
    LET p == last.project
        total == Cardinality(ProjectTasks(tasks, p))
        done == Cardinality(CompletedTasksOf(tasks, p))
    IN /\ projects[p].tasksCount = total
       /\ projects[p].completedTasks = done
       /\ projects[p].completionPercentage =
            (IF total = 0 THEN 0 ELSE RoundedPercent(done, total))

\* C2: a propagation step that finds tasksCount > 0 and every task completed
\* leaves the project Completed with a non-null end timestamp, and a step
\* makes the project Completed only when it has tasks and all are completed.
C2_CompletedWithEndDate ==
  [][(last'.op = "putStatus" /\ last'.code = 200) =>
       LET p == last'.project
       IN /\ (projects'[p].tasksCount > 0
               /\ projects'[p].completedTasks = projects'[p].tasksCount)
              => (projects'[p].status = "Completed" /\ projects'[p].endDate)
          /\ (projects'[p].status = "Completed" /\ projects[p].status # "Completed")
              => (ProjectTasks(tasks', p) # {}
                  /\ CompletedTasksOf(tasks', p) = ProjectTasks(tasks', p))]_vars

\* C3: when a project whose N > 1 tasks are all completed (status Completed,
\* 100%) has one task moved back to in_progress, propagation leaves
\* completedTasks = N - 1, completionPercentage = round(100 (N-1) / N) and the
\* status In Progress.
C3_ReopenReverts ==
  [][\A p \in ProjectIds :
       LET n == Cardinality(ProjectTasks(tasks, p))
       IN (/\ last'.op = "putStatus" /\ last'.code = 200
           /\ last'.project = p /\ last'.status = "in_progress"
           /\ n > 1
           /\ CompletedTasksOf(tasks, p) = ProjectTasks(tasks, p)
           /\ projects[p].status = "Completed"
           /\ projects[p].completionPercentage = 100)
          => (/\ projects'[p].completedTasks = n - 1
              /\ projects'[p].completionPercentage = RoundedPercent(n - 1, n)
              /\ projects'[p].status = "In Progress")]_vars

\* C4: a propagation step with 0 < completedTasks < tasksCount moves the
\* project to In Progress only from Planning, and a Delayed or On Hold project
\* keeps its status after a status update that leaves a task incomplete.
C4_DelayedOnHoldSticky ==
  [][(last'.op = "putStatus" /\ last'.code = 200) =>
       LET p == last'.project
       IN /\ (/\ 0 < projects'[p].completedTasks
               /\ projects'[p].completedTasks < projects'[p].tasksCount
               /\ projects'[p].status = "In Progress"
               /\ projects[p].status # "In Progress")
              => projects[p].status = "Planning"
          /\ (/\ projects[p].status \in {"Delayed", "On Hold"}
               /\ CompletedTasksOf(tasks', p) # ProjectTasks(tasks', p))
              => projects'[p].status = projects[p].status]_vars

\* C5: a propagation step that finds no completed task leaves the project's
\* status (Planning, In Progress, Delayed or On Hold) as it was before the step.
C5_NoCompletedKeepsStatus ==
  [][(/\ last'.op = "putStatus" /\ last'.code = 200
      /\ projects[last'.project].status \in {"Planning", "In Progress", "Delayed", "On Hold"}
      /\ projects'[last'.project].completedTasks = 0)
     => projects'[last'.project].status = projects[last'.project].status]_vars

\* A missing, empty or whitespace-only delay reason.
BlankReason(r) ==
  IF r = Absent THEN TRUE ELSE \A i \in 1..Len(r) : r[i] = " "

\* C6: a status update to delayed with a missing, empty or whitespace-only
\* delay reason is answered 400 and changes neither the task, nor the
\* project, nor the notifications, nor the emitted events.
C6_DelayedWithoutReasonRejected ==
  [][(last'.op = "putStatus" /\ last'.status = "delayed" /\ BlankReason(last'.reason))
     => (/\ last'.code = 400
         /\ emitted' = {}
         /\ UNCHANGED <<tasks, projects, notifications>>)]_vars

\* A whitespace-only reason was rejected on a project that already has a
\* logged status update.
C6_Witness ==
  /\ last.op = "putStatus" /\ last.code = 400 /\ last.status = "delayed"
  /\ last.reason # Absent
  /\ Len(last.reason) = 1
  /\ BlankReason(last.reason)
  /\ LogTotal(tasks) > 0

(***************************************************************************)
(* Claims about the socket server, checked under SpecSocket.               *)
(***************************************************************************)
\* The open authenticated connections of a user.
OpenSocketsOf(u) == {s \in sockets : s.userId = u}

\* C7: in every reachable state a user has an entry in the presence registry
\* if and only if that user has at least one open authenticated connection.
C7_PresentIffConnected ==
  \A u \in UserIds : (u \in DOMAIN connectedUsers) <=> (OpenSocketsOf(u) # {})

\* C8: the disconnect of a connection whose handle is not the one recorded
\* for its user leaves the presence registry unchanged.
C8_DisconnectHandleSpecific ==
  [][\A s \in sockets :
       (/\ sockets' = sockets \ {s}
        /\ (s.userId \notin DOMAIN connectedUsers \/ connectedUsers[s.userId] # s.id))
       => connectedUsers' = connectedUsers]_vars

\* C9: every connection that got past the handshake (joined rooms, was
\* registered, can receive events) presented a well-formed, valid credential
\* of a user who existed and was active at the handshake.
C9_RefusedAtHandshake ==
  \A s \in sockets :
    /\ s.token.present
    /\ s.token.valid
    /\ s.token.id \in DOMAIN users
    /\ s.user.isActive

\* The Notification row of a dispatch for a user exists.
RowExists(rows, d, u) ==
  \E i \in DOMAIN rows : rows[i] = [userId |-> u, dispatch |-> d]

\* C10: a step emits notification:new for a user only if the Notification row
\* of that dispatch for that user existed before the step; the room broadcast
\* of a role / all dispatch comes after the rows of all its targets.
C10_PersistedBeforePush ==
  [][\A e \in emitted' :
       e.event = "notification:new" =>
         IF e.user # Absent
           THEN RowExists(notifications, e.dispatch, e.user)
           ELSE \A u \in dispatches[e.dispatch].targets :
                  RowExists(notifications, e.dispatch, u)]_vars

\* A connected user was pushed a notification while another target of the
\* same dispatch was still waiting for its row.
C10_Witness ==
  \E e \in emitted :
    /\ e.event = "notification:new"
    /\ e.user # Absent
    /\ e.to # {}
    /\ RowExists(notifications, e.dispatch, e.user)
    /\ \E u \in dispatches[e.dispatch].targets : dispatches[e.dispatch].state[u] = "pending"

C12_PushedToEveryConnection ==
  [][\A d \in DOMAIN dispatches : \A u \in dispatches[d].targets :
       (dispatches[d].state[u] = "saved" /\ dispatches'[d].state[u] = "done") =>
         LET open == {s.id : s \in OpenSocketsOf(u)}
         IN IF open = {}
              THEN emitted' = {}
              ELSE \E e \in emitted' :
                     e.event = "notification:new" /\ e.user = u /\ e.to = open]_vars

\* Target u of the notifyUsers dispatch d is in state st.
TargetIn(d, u, st) ==
  /\ d \in DOMAIN dispatches
  /\ dispatches[d].kind = "users"
  /\ u \in dispatches[d].targets
  /\ dispatches[d].state[u] = st

\* Another target of dispatch d has failed.
OtherFailed(d, u) ==
  /\ d \in DOMAIN dispatches
  /\ \E v \in dispatches[d].targets \ {u} : dispatches[d].state[v] = "failed"

\* C13: in notifyUsers, after one target has failed, every other target's
\* create is still carried out (its row is written unless its own create
\* rejects) and a target whose row is written still gets its push attempt;
\* no step removes or changes a Notification row already written.
C13_FailureDoesNotStopOthers ==
  /\ \A d \in 1..MaxDispatches : \A u \in UserIds :
       /\ (TargetIn(d, u, "pending") /\ OtherFailed(d, u)) ~> ~TargetIn(d, u, "pending")
       /\ (TargetIn(d, u, "saved") /\ OtherFailed(d, u)) ~> ~TargetIn(d, u, "saved")
  /\ [][/\ Len(notifications') >= Len(notifications)
        /\ SubSeq(notifications', 1, Len(notifications)) = notifications]_vars

\* notifyUsers was rejected because of one target while the other target's
\* row was written and its push done.
C13_Witness ==
  \E d \in DOMAIN dispatches :
    /\ dispatches[d].kind = "users"
    /\ dispatches[d].outcome = "rejected"
    /\ \E u \in dispatches[d].targets : \E v \in dispatches[d].targets \ {u} :
         /\ dispatches[d].state[v] = "failed"
         /\ ~RowExists(notifications, d, v)
         /\ dispatches[d].state[u] = "done"
         /\ RowExists(notifications, d, u)
         /\ u \in DOMAIN connectedUsers

\* C14: a multi-target operation (notifyUsers, notifyRole, notifyAll) never
\* rejects to its caller because the create of one of its targets failed.
C14_TargetFailureNotRaised ==
  \A d \in DOMAIN dispatches :
    dispatches[d].kind \in {"users", "role", "all"} => dispatches[d].outcome # "rejected"

\* The active users holding a role.
ActiveWithRole(us, role) == {u \in DOMAIN us : us[u].role = role /\ us[u].isActive}

\* C15: a notifyRole call resolves as its targets (the users a Notification
\* row is created for) exactly the active users holding the role, none of
\* the deactivated ones.
C15_RoleTargetsActiveUsers ==
  [][\A d \in DOMAIN dispatches' \ DOMAIN dispatches :
       dispatches'[d].kind = "role" =>
         dispatches'[d].targets = ActiveWithRole(users, dispatches'[d].role)]_vars

\* The Notification rows written for dispatch d.
RowsOf(rows, d) == {i \in DOMAIN rows : rows[i].dispatch = d}

\* C16: once the Notification of a notifyUser / sendRealTimeNotification call
\* is persisted, the call is not escalated to an error whatever happens to
\* the push, and the dispatch never has more than one Notification row.
C16_PushFailureNotEscalated ==
  \A d \in DOMAIN dispatches :
    dispatches[d].kind \in SingleKinds =>
      /\ Cardinality(RowsOf(notifications, d)) <= 1
      /\ RowsOf(notifications, d) # {} => dispatches[d].outcome # "rejected"

(***************************************************************************)
(* Claims about task documents, checked under Spec.                        *)
(***************************************************************************)
\* C17: in every reachable state, for every task, progress = 100 if and only
\* if its status is completed, and progress = 0 if and only if its status is
\* the initial status (assigned).
C17_ProgressMatchesStatus ==
  \A t \in DOMAIN tasks :
    /\ (tasks[t].progress = 100) <=> IsCompletedStatus(tasks[t].status)
    /\ (tasks[t].progress = 0) <=> (tasks[t].status = "assigned")

\* The task document stores a non-empty delay reason.
HasDelayReason(task) == task.delayReason # Absent /\ task.delayReason # <<>>

\* C18: in every reachable state a task carries a non-empty delayReason
\* exactly when its status is delayed.
C18_DelayReasonIffDelayed ==
  \A t \in DOMAIN tasks : HasDelayReason(tasks[t]) <=> (tasks[t].status = "delayed")

\* C19: every step that changes a task's status appends exactly one entry
\* with the new status to its status log and keeps the earlier entries, and
\* no step shortens or rewrites a log.
C19_StatusLogComplete ==
  [][\A t \in DOMAIN tasks :
       LET old == tasks[t].statusLog
           new == tasks'[t].statusLog
       IN /\ Len(new) >= Len(old)
          /\ SubSeq(new, 1, Len(old)) = old
          /\ tasks'[t].status # tasks[t].status =>
               /\ Len(new) = Len(old) + 1
               /\ new[Len(new)].status = tasks'[t].status]_vars

\* C20: after a project was deleted through either delete endpoint no task
\* referencing it remains.
C20_DeleteCascades ==
  (last.op \in {"deleteProject", "adminDeleteProject"} /\ last.code = 200) =>
    ProjectTasks(tasks, last.project) = {}

(***************************************************************************)
(* Claims about the project's derived fields, checked under Spec.          *)
(***************************************************************************)
\* The percentage computed from the project's tasks.
ComputedPercent(ts, p) ==
  IF ProjectTasks(ts, p) = {} THEN 0
  ELSE RoundedPercent(Cardinality(CompletedTasksOf(ts, p)), Cardinality(ProjectTasks(ts, p)))

\* C21: a project update or project status request changes a derived field
\* of the project (completionPercentage, completedTasks, tasksCount,
\* progress) only to the value computed from the project's tasks.
C21_DerivedFieldsNotSettable ==
  [][(last'.op \in {"updateProject", "setProjectStatus"} /\ last'.code = 200) =>
       LET p == last'.project
           old == projects[p]
           new == projects'[p]
       IN /\ new.completionPercentage # old.completionPercentage
               => new.completionPercentage = ComputedPercent(tasks', p)
          /\ new.progress # old.progress => new.progress = ComputedPercent(tasks', p)
          /\ new.completedTasks # old.completedTasks
               => new.completedTasks = Cardinality(CompletedTasksOf(tasks', p))
          /\ new.tasksCount # old.tasksCount
               => new.tasksCount = Cardinality(ProjectTasks(tasks', p))]_vars

\* C22: after every operation that changes a project's task set or a task's
\* status (task creation, technician status update, report submission,
\* setting the project Completed) the project's tasksCount, completedTasks
\* and completionPercentage agree with the recomputation from its tasks.
C22_PropagationAfterEveryChange ==
  (/\ last.op \in {"createTask", "managerCreateTask", "putStatus", "submitReport",
                   "setProjectStatus"}
   /\ last.code \in {200, 201}
   /\ last.op = "setProjectStatus" => last.status = "Completed") =>
    LET p == last.project
    IN /\ projects[p].tasksCount = Cardinality(ProjectTasks(tasks, p))
       /\ projects[p].completedTasks = Cardinality(CompletedTasksOf(tasks, p))
       /\ projects[p].completionPercentage = ComputedPercent(tasks, p)

\* The project's four derived fields equal the recomputation from the task
\* set: the counts, the rounded percentage and the status the counts give.
MatchesRecompute(ts, ps, p) ==
  LET c == Cardinality(CompletedTasksOf(ts, p))
      t == Cardinality(ProjectTasks(ts, p))
  IN /\ ps[p].completedTasks = c
     /\ ps[p].tasksCount = t
     /\ ps[p].completionPercentage = ComputedPercent(ts, p)
     /\ t > 0 => ps[p].status = (IF c = t THEN "Completed"
                                 ELSE IF c > 0 THEN "In Progress"
                                 ELSE "Planning")

\* C23: the recomputed project fields are persisted atomically with the task
\* update: every step that commits a task's new status leaves the project's
\* derived fields equal to the recomputation from the task set, so no reader
\* sees the new task status beside the project's old values.
C23_PersistedWithTaskUpdate ==
  [][\A t \in DOMAIN tasks :
       (tasks'[t].status # tasks[t].status /\ tasks[t].project \in DOMAIN projects)
         => MatchesRecompute(tasks', projects', tasks[t].project)]_vars

\* Two requests on different tasks of one project were served at the same time.
Overlapped ==
  \E r1, r2 \in DOMAIN requests :
    /\ r1 < r2
    /\ requests[r1].task # requests[r2].task
    /\ tasks[requests[r1].task].project = tasks[requests[r2].task].project
    /\ ~requests[r2].alone

\* C26: the read-recompute-persist sequence is not serialized per project: the
\* counts a request writes are the counts of its own earlier read of the task
\* set, whatever other requests committed since, so two concurrent updates can
\* finish with stored fields that differ from the recomputation.
C26_WritesItsOwnStaleRead ==
  [][\A r \in DOMAIN requests :
       (requests[r].pc = "tasksRead" /\ requests'[r].pc = "countsWritten")
         => LET p == tasks[requests[r].task].project
            IN /\ projects'[p].completedTasks = requests[r].completed
               /\ projects'[p].tasksCount = requests[r].total
               /\ projects'[p].completionPercentage
                    = RoundedPercent(requests[r].completed, requests[r].total)]_vars

\* Both of two concurrent requests have finished and the stored fields differ
\* from the recomputation over the final task set.
C26_Witness ==
  /\ Len(requests) = 2
  /\ NoneInFlight(requests)
  /\ Overlapped
  /\ ~MatchesRecompute(tasks, projects, tasks[requests[1].task].project)

DispatchFailed(d) ==
  \/ dispatches[d].outcome = "rejected"
  \/ \E u \in dispatches[d].targets : dispatches[d].state[u] = "failed"

C25_NoRowForAnotherUser ==
  [][Len(notifications') > Len(notifications)
       => LET row == notifications'[Len(notifications')]
          IN IF row.dispatch = 0
               THEN row.userId = last'.by
               ELSE callers[row.dispatch].op = "testNotification"
                      => row.userId = callers[row.dispatch].by]_vars

\* C28: after every successful technician status update a
\* task_status_updated event is published to a room that each connection of
\* the assigning manager and of a superadmin has joined.
C28_StatusEventReachesRooms ==
  [][(last'.op = "putStatus" /\ last'.code = 200 /\ tasks' # tasks)
       => \A s \in sockets :
            (s.userId = tasks[last'.task].assignedBy \/ s.user.role = "superadmin")
              => \E e \in emitted' :
                   /\ e.via = "io"
                   /\ e.event = "task_status_updated"
                   /\ e.room \in s.rooms]_vars

C30_DeactivatedSessionRejected ==
  [][(last' # last /\ last'.op = "request" /\ ~sessions[last'.token].isActive)
       => last'.code = 401]_vars

Next ==
  \/ \E u \in Technicians, t \in 1..MaxTasks, s \in StatusInputs :
       \E r \in ReasonsFor(s) : PutTaskStatus(u, t, s, r)
  \/ \E m \in Managers, p \in ProjectIds, tech \in Technicians : CreateTask(m, p, tech)
  \/ \E m \in Managers, p \in ProjectIds, tech \in Technicians : ManagerCreateTask(m, p, tech)
  \/ \E u \in Technicians, t \in 1..MaxTasks : SubmitReport(u, t)
  \/ \E m \in Managers, p \in ProjectIds, s \in ProjectStatusEnum : SetProjectStatus(m, p, s)
  \/ \E m \in Managers, p \in ProjectIds : DeleteProject(m, p)
  \/ \E p \in ProjectIds : AdminDeleteProject(p)

Spec == Init /\ [][Next]_vars

\* The request handlers together with the project update route.
NextProject ==
  \/ Next
  \/ \E m \in Managers, p \in ProjectIds, pct \in ClientPercentages : UpdateProject(m, p, pct)

SpecProject == Init /\ [][NextProject]_vars

\* Technician status updates running concurrently; tasks are created
\* between updates.
NextRace ==
  \/ \E m \in Managers, p \in ProjectIds, tech \in Technicians :
       NoneInFlight(requests) /\ CreateTask(m, p, tech)
  \/ \E u \in Technicians, t \in 1..MaxTasks, s \in RaceStatuses : ReqUpdateTask(u, t, s)
  \/ \E r \in 1..MaxRequests : ReqReadProject(r)
  \/ \E r \in 1..MaxRequests : ReqReadTasks(r)
  \/ \E r \in 1..MaxRequests : ReqWriteCounts(r)
  \/ \E r \in 1..MaxRequests : ReqWriteStatus(r)

SpecRace == Init /\ [][NextRace]_vars

\* Project and task creation with their notification dispatches.
NextCreate ==
  \/ \E m \in Managers, p \in NewProjectIds, found \in BOOLEAN : PostProject(m, p, found)
  \/ \E m \in Managers, p \in ProjectIds, tech \in Technicians : AssignTask(m, p, tech)
  \/ \E d \in 1..MaxDispatches : AssignTaskRespond(d)
  \/ \E d \in 1..MaxDispatches : UnhandledRejection(d)
  \/ ProcessExit
  \/ \E d \in 1..MaxDispatches, u \in UserIds \cup Technicians : Alive /\ Persist(d, u)
  \/ \E d \in 1..MaxDispatches, u \in UserIds \cup Technicians : Alive /\ PersistFails(d, u)
  \/ \E d \in 1..MaxDispatches, u \in UserIds \cup Technicians : Alive /\ Push(d, u)
  \/ \E d \in 1..MaxDispatches : Alive /\ FallbackSave(d)
  \/ \E d \in 1..MaxDispatches : Alive /\ FallbackFails(d)
  \/ \E d \in 1..MaxDispatches : Alive /\ Settle(d)
  \/ \E t \in Tokens : process = "running" /\ Connect(t)
  \/ \E s \in sockets : Disconnect(s)
  \/ \E by \in UserIds, target \in UserIds : PostNotification(by, target)
  \/ \E by \in UserIds, target \in UserIds : PostTestNotification(by, target)
  \/ \E d \in 1..MaxDispatches : TestNotificationRespond(d)

SpecCreate == Init /\ [][NextCreate]_vars

\* Technician status updates while clients are connected.
NextEvents ==
  \/ \E t \in Tokens : Connect(t)
  \/ \E s \in sockets : Disconnect(s)
  \/ \E m \in Managers, p \in ProjectIds, tech \in Technicians : CreateTask(m, p, tech)
  \/ \E u \in Technicians, t \in 1..MaxTasks, s \in StatusInputs :
       \E r \in ReasonsFor(s) : PutTaskStatus(u, t, s, r)

SpecEvents == Init /\ [][NextEvents]_vars

\* Sessions: login, logout, password change and requests behind protect.
NextAuth ==
  \/ \E u \in UserIds : Login(u)
  \/ \E tok \in 1..MaxSessions : Logout(tok)
  \/ \E tok \in 1..MaxSessions, ok \in BOOLEAN : ChangePassword(tok, ok)
  \/ \E tok \in 1..MaxSessions : ProtectedRequest(tok)
  \/ \E u \in UserIds : DeactivateUser(u)

SpecAuth == Init /\ [][NextAuth]_vars

NextSocket ==
  \/ \E t \in Tokens : Connect(t)
  \/ \E t \in Tokens : RefuseConnect(t)
  \/ \E s \in sockets : Disconnect(s)
  \/ \E u \in UserIds : DeactivateUser(u)
  \/ \E u \in UserIds : NotifyUser(u)
  \/ \E u \in UserIds, server \in BOOLEAN : NotifyRealTime(u, server)
  \/ \E us \in SUBSET UserIds : NotifyUsers(us)
  \/ \E r \in RoleInputs : NotifyRole(r)
  \/ NotifyAll
  \/ \E d \in 1..MaxDispatches, u \in UserIds : Persist(d, u)
  \/ \E d \in 1..MaxDispatches, u \in UserIds : PersistFails(d, u)
  \/ \E d \in 1..MaxDispatches, u \in UserIds : Push(d, u)
  \/ \E d \in 1..MaxDispatches, u \in UserIds : PushFails(d, u)
  \/ \E d \in 1..MaxDispatches : FallbackSave(d)
  \/ \E d \in 1..MaxDispatches : FallbackFails(d)
  \/ \E d \in 1..MaxDispatches : Settle(d)

SpecSocket == Init /\ [][NextSocket]_vars

\* The event loop runs every continuation that is ready: an awaited
\* Notification.create settles, and the code after the await then runs.
SocketFairness ==
  \A d \in 1..MaxDispatches : \A u \in UserIds :
    /\ WF_vars(Persist(d, u) \/ PersistFails(d, u))
    /\ WF_vars(Push(d, u) \/ PushFails(d, u))

SpecSocketFair == SpecSocket /\ SocketFairness
====
